---- MODULE Spec2Model ----
(***************************************************************************)
(* flexcalc: flexibility score of a trajectory, computed in four passes    *)
(* over a rewindable text file (src/flexcalc.c).                           *)
(*                                                                         *)
(* Representation choices                                                  *)
(*  - A FRAME linked list is a sequence of <<x, y, z>> triples; the NULL   *)
(*    pointer is the empty sequence (an empty list IS NULL in the code).   *)
(*  - REAL (double) is fixed point: the integer v stands for v / Scale.    *)
(*    Division truncates, so the rounding of x / frameCount is visible,    *)
(*    only coarser than in IEEE doubles.                                   *)
(*  - A text line is a record; a char array that was never written holds   *)
(*    Uninit, and printing it yields any string (chosen by the oracle).    *)
(*  - malloc() is assumed to succeed.                                      *)
(***************************************************************************)
EXTENDS Integers, Sequences, FiniteSets

\* ---- bounds of the model ----
\* lines of the input file; header lines among them; lines among them that
\* are neither a header nor a coordinate line
MaxLines == 8
MaxFrames == 4
MaxJunk == 1

\* lines between two header lines
MaxAtoms == MaxLines \div 4

\* ---- REAL as fixed point: four decimals, as printed by "%.4f" ----
Scale == 10000

\* the REAL that 0.0 / 0 yields; it is not a number of the model's range
NaN == 0 - (Scale * Scale * 10)
Unset == "unset"

\* coordinate triples that coordinate lines of the input may carry
CoordSet == {<<0, 0, 0>>, <<2, 0, 0>>, <<0, 2, 0>>}

\* ---- text lines ----
Hdr(i) == [k |-> "hdr", name |-> i, v |-> <<0, 0, 0>>]
Xyz(c) == [k |-> "xyz", name |-> 0, v |-> c]
Junk == [k |-> "junk", name |-> 0, v |-> <<0, 0, 0>>]
EmptyStr == [k |-> "empty", name |-> 0, v |-> <<0, 0, 0>>]
Uninit == [k |-> "uninit", name |-> 0, v |-> <<0, 0, 0>>]
Garbage == [k |-> "garbage", name |-> 0, v |-> <<0, 0, 0>>]

\* ---- messages ----
MSG_ATOMMISMATCH == "Number of coordinates in frame doesn't match first frame. Frame Header: "
MSG_NOFRAMES == "No frames in trajectory"
MSG_NOMEAN == "Unable to calculate mean coordinates"
MSG_NOCLOSEST == "Couldn't find closest frame"
MSG_NORMSD == "Unable to calculate mean RMSD"

\* ---- the input files of the model ----
RECURSIVE NumHeaders(_)
NumHeaders(f) ==
    IF f = <<>> THEN 0
    ELSE NumHeaders(Tail(f)) + (IF Head(f).k = "hdr" THEN 1 ELSE 0)

RECURSIVE NumJunk(_)
NumJunk(f) ==
    IF f = <<>> THEN 0
    ELSE NumJunk(Tail(f)) + (IF Head(f).k = "junk" THEN 1 ELSE 0)

\* the lines under a header line, or before the first one
BodyLines == {Xyz(c) : c \in CoordSet} \cup {Junk}

\* lens[0] + ... + lens[i]
RECURSIVE SumTo(_, _)
SumTo(lens, i) == IF i < 0 THEN 0 ELSE lens[i] + SumTo(lens, i - 1)

\* the file with lens[0] lines, then for i = 1..n header line i followed by
\* lens[i] lines, the lines taken from body in order
RECURSIVE Build(_, _, _, _)
Build(n, lens, body, i) ==
    IF i > n THEN <<>>
    ELSE (IF i = 0 THEN <<>> ELSE <<Hdr(i)>>)
         \o SubSeq(body, SumTo(lens, i - 1) + 1, SumTo(lens, i))
         \o Build(n, lens, body, i + 1)

\* f is an input of the model: Init draws every such file
IsInput(f) ==
    \E n \in 0..MaxFrames : \E lens \in [0..n -> 0..MaxAtoms] :
        /\ n + SumTo(lens, n) <= MaxLines
        /\ \E body \in [1..SumTo(lens, n) -> BodyLines] :
              /\ \A k \in 1..lens[0] : body[k] = Junk
              /\ NumJunk(Build(n, lens, body, 0)) <= MaxJunk
              /\ f = Build(n, lens, body, 0)

\* what an uninitialised node or char array may turn out to hold
UninitTriples == {<<0, 0, 0>>, <<2 * Scale, 2 * Scale, 2 * Scale>>}
UninitStrings == {Garbage, Hdr(1)}
Oracles == [str : UninitStrings, real : UninitTriples]
Oracle0 == [str |-> Garbage, real |-> <<0, 0, 0>>]

\* ---- pure functions of flexcalc.c ----

\* sscanf(buffer, "%lf %lf %lf", ...): a coordinate line sets the three
\* fields; a line with no number leaves the malloc'ed node as it was
Sscanf(l, u) ==
    IF l.k = "xyz" THEN <<l.v[1] * Scale, l.v[2] * Scale, l.v[3] * Scale>>
    ELSE u

\* the while(fgets(...)) loop of ReadFrame
RECURSIVE ReadLoop(_, _, _, _, _, _)
ReadLoop(lines, p, fe, buf, frame, u) ==
    IF p >= Len(lines)
    THEN [frame |-> frame, pos |-> p, firstEntry |-> fe, buffer |-> buf]
    ELSE LET l == lines[p + 1] IN
         IF l.k = "hdr"
         THEN IF ~fe
              THEN [frame |-> frame, pos |-> p + 1, firstEntry |-> fe,
                    buffer |-> l]
              ELSE ReadLoop(lines, p + 1, FALSE, l, frame, u)
         ELSE ReadLoop(lines, p + 1, fe, l, Append(frame, Sscanf(l, u)), u)

\* ReadFrame(in, header) with in != NULL; the statics are passed in and out
ReadFrame(lines, p, fe, buf, hdr, u) ==
    LET r == ReadLoop(lines, p, fe, IF fe THEN EmptyStr ELSE buf, <<>>, u)
    IN  [frame |-> r.frame, pos |-> r.pos, firstEntry |-> r.firstEntry,
         buffer |-> r.buffer, header |-> IF fe THEN hdr ELSE buf]

CountFrames(lines) == NumHeaders(lines)

Min(a, b) == IF a < b THEN a ELSE b

\* mutant: the divisor is off by one
AddCoordOffByOne(m, g, n) ==
    <<m[1] + (g[1] \div (n + 1)), m[2] + (g[2] \div (n + 1)),
      m[3] + (g[3] \div (n + 1))>>

\* mutant: the quotient is stored, not added
AddCoordAssigned(m, g, n) == <<g[1] \div n, g[2] \div n, g[3] \div n>>

AddCoord(m, g, n) == <<m[1] + (g[1] \div n), m[2] + (g[2] \div n),
                       m[3] + (g[3] \div n)>>

\* AddFrame: the common prefix is accumulated, then the lengths are compared
AddFrame(meanFrame, frame, n) ==
    [mean |-> [i \in 1..Len(meanFrame) |->
                  IF i <= Len(frame) THEN AddCoord(meanFrame[i], frame[i], n)
                  ELSE meanFrame[i]],
     ok |-> Len(meanFrame) = Len(frame)]

RECURSIVE ISqrt(_)
ISqrt(n) ==
    IF n < 2 THEN n
    ELSE LET s == 2 * ISqrt(n \div 4)
         IN  IF (s + 1) * (s + 1) > n THEN s ELSE s + 1

\* sqrt() of a fixed-point value
Sqrt(v) == ISqrt(v * Scale)

Sq(d) == (d * d) \div Scale

Dist2(p, q) == Sq(p[1] - q[1]) + Sq(p[2] - q[2]) + Sq(p[3] - q[3])

RECURSIVE SumDist2(_, _, _)
SumDist2(f1, f2, n) ==
    IF n = 0 THEN 0 ELSE SumDist2(f1, f2, n - 1) + Dist2(f1[n], f2[n])

\* mutant: only frame1 is tested for leftover coordinates
RMSFrameOneSided(frame1, frame2) ==
    LET nCoor == Min(Len(frame1), Len(frame2))
        rmsd == SumDist2(frame1, frame2, nCoor)
    IN  IF Len(frame1) > nCoor THEN 0 - Scale
        ELSE IF nCoor = 0 THEN NaN
        ELSE Sqrt(rmsd \div nCoor)

\* mutant: the sum of squares is not divided by the number of coordinates
RMSFrameUndivided(frame1, frame2) ==
    LET nCoor == Min(Len(frame1), Len(frame2))
        rmsd == SumDist2(frame1, frame2, nCoor)
    IN  IF Len(frame1) > nCoor \/ Len(frame2) > nCoor THEN 0 - Scale
        ELSE IF nCoor = 0 THEN NaN
        ELSE Sqrt(rmsd)

RMSFrame(frame1, frame2) ==
    LET nCoor == Min(Len(frame1), Len(frame2))
        rmsd == SumDist2(frame1, frame2, nCoor)
    IN  IF Len(frame1) > nCoor \/ Len(frame2) > nCoor THEN 0 - Scale
        ELSE IF nCoor = 0 THEN NaN
        ELSE Sqrt(rmsd \div nCoor)

\* REAL comparison and arithmetic; a NaN compares false and propagates
IsNeg(r) == r # NaN /\ r < 0

\* mutant: <= in place of <
LessOrEqual(a, b) == a # NaN /\ b # NaN /\ a <= b

Less(a, b) == a # NaN /\ b # NaN /\ a < b

Plus(a, b) == IF a = NaN \/ b = NaN THEN NaN ELSE a + b

Over(a, n) == IF a = NaN THEN NaN ELSE a \div n

CopyFrame(frame) == frame

ZeroFrame(frame) ==
    IF frame = <<>> THEN <<>> ELSE [i \in 1..Len(frame) |-> <<0, 0, 0>>]

\* an uninitialised char array, when printed
Shown(h, o) == IF h = Uninit THEN o.str ELSE h

VARIABLES
    file,          \* the lines of the input file
    pos,           \* the FILE cursor: number of lines consumed
    buffer,        \* ReadFrame: static char buffer[]
    firstEntry,    \* ReadFrame: static BOOL firstEntry
    pc,            \* position in main and the pass being run
    frameCount,    \* main: frameCount
    meanFrame,     \* CalculateMeanCoords: meanFrame, then main: meanFrame
    closestFrame,  \* FindClosestToMean: closestFrame, then main's
    header,        \* main: char header[MAXBUFF]
    locHeader,     \* header[] / thisHeader[] local to the running pass
    firstFrame,    \* FindClosestToMean: firstFrame
    lowestRMSD,    \* FindClosestToMean: lowestRMSD
    meanRMSD,      \* CalculateMeanRMSD: meanRMSD, then main's
    out,           \* stdout
    err,           \* stderr
    exitStatus,    \* process exit status, -1 while running
    yielded,       \* history: frames ReadFrame returned in this pass
    reads,         \* history: number of ReadFrame(in, ...) calls with in # NULL
    closestIdx,    \* history: which frame of the pass closestFrame copies
    log,           \* history: passes started and how main judged them
    heap,          \* history: frame lists allocated and not yet freed
    rmsCall,       \* history: the arguments of the last RMSFrame call
    argA, argB, res  \* arguments and results of a direct RMSFrame call

vars == <<file, pos, buffer, firstEntry, pc, frameCount, meanFrame,
          closestFrame, header, locHeader, firstFrame, lowestRMSD, meanRMSD,
          out, err, exitStatus, yielded, reads, closestIdx, log, heap,
          rmsCall, argA, argB, res>>

St == [file |-> file, pos |-> pos, buffer |-> buffer,
       firstEntry |-> firstEntry, pc |-> pc, frameCount |-> frameCount,
       meanFrame |-> meanFrame, closestFrame |-> closestFrame,
       header |-> header, locHeader |-> locHeader,
       firstFrame |-> firstFrame, lowestRMSD |-> lowestRMSD,
       meanRMSD |-> meanRMSD, out |-> out, err |-> err,
       exitStatus |-> exitStatus, yielded |-> yielded, reads |-> reads,
       closestIdx |-> closestIdx, log |-> log, heap |-> heap,
       rmsCall |-> rmsCall]

Apply(n) ==
    /\ file' = n.file
    /\ pos' = n.pos
    /\ buffer' = n.buffer
    /\ firstEntry' = n.firstEntry
    /\ pc' = n.pc
    /\ frameCount' = n.frameCount
    /\ meanFrame' = n.meanFrame
    /\ closestFrame' = n.closestFrame
    /\ header' = n.header
    /\ locHeader' = n.locHeader
    /\ firstFrame' = n.firstFrame
    /\ lowestRMSD' = n.lowestRMSD
    /\ meanRMSD' = n.meanRMSD
    /\ out' = n.out
    /\ err' = n.err
    /\ exitStatus' = n.exitStatus
    /\ yielded' = n.yielded
    /\ reads' = n.reads
    /\ closestIdx' = n.closestIdx
    /\ log' = n.log
    /\ heap' = n.heap
    /\ rmsCall' = n.rmsCall
    /\ UNCHANGED <<argA, argB, res>>

Apply0(n) ==
    /\ file = n.file
    /\ pos = n.pos
    /\ buffer = n.buffer
    /\ firstEntry = n.firstEntry
    /\ pc = n.pc
    /\ frameCount = n.frameCount
    /\ meanFrame = n.meanFrame
    /\ closestFrame = n.closestFrame
    /\ header = n.header
    /\ locHeader = n.locHeader
    /\ firstFrame = n.firstFrame
    /\ lowestRMSD = n.lowestRMSD
    /\ meanRMSD = n.meanRMSD
    /\ out = n.out
    /\ err = n.err
    /\ exitStatus = n.exitStatus
    /\ yielded = n.yielded
    /\ reads = n.reads
    /\ closestIdx = n.closestIdx
    /\ log = n.log
    /\ heap = n.heap
    /\ rmsCall = n.rmsCall

\* what a frame list on the heap is held for: the frame a loop has just
\* read, the copy kept by FindClosestToMean, the mean frame
Kinds == {"frame", "closest", "mean"}

NoHeap == [live |-> [k \in Kinds |-> 0], peak |-> [k \in Kinds |-> 0]]

\* the state when main has opened the file
Start(f) ==
    [file |-> f, pos |-> 0, buffer |-> EmptyStr, firstEntry |-> TRUE,
     pc |-> "count", frameCount |-> 0, meanFrame |-> <<>>,
     closestFrame |-> <<>>, header |-> Uninit, locHeader |-> Uninit,
     firstFrame |-> TRUE, lowestRMSD |-> Unset, meanRMSD |-> 0,
     out |-> <<>>, err |-> <<>>, exitStatus |-> -1, yielded |-> <<>>,
     reads |-> 0, closestIdx |-> 0, log |-> <<>>, heap |-> NoHeap,
     rmsCall |-> <<>>]

\* ---- Msg, Die ----
Msg(s, msg, submsg) == [s EXCEPT !.err = Append(@, <<msg, submsg>>)]

\* mutant: exit(0) in place of exit(1)
DieWithStatusZero(s, msg, submsg) ==
    [Msg(s, msg, submsg) EXCEPT !.exitStatus = 0, !.pc = "exit"]

Die(s, msg, submsg) ==
    [Msg(s, msg, submsg) EXCEPT !.exitStatus = 1, !.pc = "exit"]

\* ---- the heap: lists built by ReadFrame and CopyFrame, FREELIST ----
Allocated(k) == [op |-> "alloc", kind |-> k]

Freed(k) == [op |-> "free", kind |-> k]

Max(a, b) == IF a > b THEN a ELSE b

HeapEvent(h, e) ==
    IF e.op = "alloc"
    THEN [live |-> [h.live EXCEPT ![e.kind] = @ + 1],
          peak |-> [h.peak EXCEPT ![e.kind] = Max(@, h.live[e.kind] + 1)]]
    ELSE [h EXCEPT !.live[e.kind] = @ - 1]

RECURSIVE HeapAfter(_, _)
HeapAfter(h, evs) ==
    IF evs = <<>> THEN h ELSE HeapAfter(HeapEvent(h, Head(evs)), Tail(evs))

\* state s after the allocations and frees evs, in program order
Heap(s, evs) == [s EXCEPT !.heap = HeapAfter(@, evs)]

\* a call r of ReadFrame made by the running pass, recorded in the state
AfterRead(s, r) ==
    [s EXCEPT !.pos = r.pos, !.buffer = r.buffer,
              !.firstEntry = r.firstEntry, !.locHeader = r.header,
              !.reads = @ + 1,
              !.yielded = IF r.frame = <<>> THEN @ ELSE Append(@, r.frame)]

ReadOf(s, o) ==
    ReadFrame(s.file, s.pos, s.firstEntry, s.buffer, s.locHeader, o.real)

\* ---- main, pass 1 ----
CountStep(s) ==
    [s EXCEPT !.frameCount = CountFrames(s.file), !.pos = 0,
              !.pc = "ret_count", !.log = Append(@, "count")]

\* mutant: the test of the frame count is off by one
CheckCountStepOffByOne(s) ==
    IF s.frameCount < 0
    THEN Die([s EXCEPT !.log = Append(@, "count_fail")], MSG_NOFRAMES, EmptyStr)
    ELSE [s EXCEPT !.pc = "mean_enter", !.log = Append(@, "count_ok")]

CheckCountStep(s) ==
    IF s.frameCount < 1
    THEN Die([s EXCEPT !.log = Append(@, "count_fail")], MSG_NOFRAMES, EmptyStr)
    ELSE [s EXCEPT !.pc = "mean_enter", !.log = Append(@, "count_ok")]

\* ---- pass 2: CalculateMeanCoords ----
MeanEnterStep(s) ==
    [s EXCEPT !.meanFrame = <<>>, !.locHeader = Uninit, !.yielded = <<>>,
              !.firstEntry = TRUE, !.pc = "mean_seed",
              !.log = Append(@, "mean")]

\* mutant: no rewind after the seed read
MeanSeedStepNoRewind(s, o) ==
    LET r == ReadOf(s, o)
        t == AfterRead(s, r)
    IN  Heap([t EXCEPT !.meanFrame = ZeroFrame(r.frame),
                       !.firstEntry = TRUE, !.yielded = <<>>,
                       !.pc = "mean_loop"],
             IF r.frame = <<>> THEN <<>> ELSE <<Allocated("mean")>>)

MeanSeedStep(s, o) ==
    LET r == ReadOf(s, o)
        t == AfterRead(s, r)
    IN  Heap([t EXCEPT !.meanFrame = ZeroFrame(r.frame), !.pos = 0,
                       !.firstEntry = TRUE, !.yielded = <<>>,
                       !.pc = "mean_loop"],
             IF r.frame = <<>> THEN <<>> ELSE <<Allocated("mean")>>)

\* mutant: the message shows the header as it was before this read
MeanLoopStepStaleHeader(s, o) ==
    LET r == ReadOf(s, o)
        t == AfterRead(s, r)
        a == AddFrame(s.meanFrame, r.frame, s.frameCount)
    IN  IF r.frame = <<>>
        THEN [t EXCEPT !.pos = 0, !.pc = "ret_mean"]
        ELSE IF ~a.ok
        THEN Heap([Msg(t, MSG_ATOMMISMATCH, Shown(s.locHeader, o))
                      EXCEPT !.meanFrame = <<>>, !.pos = 0,
                             !.pc = "ret_mean"],
                  <<Allocated("frame"), Freed("frame"), Freed("mean")>>)
        ELSE Heap([t EXCEPT !.meanFrame = a.mean],
                  <<Allocated("frame"), Freed("frame")>>)

MeanLoopStep(s, o) ==
    LET r == ReadOf(s, o)
        t == AfterRead(s, r)
        a == AddFrame(s.meanFrame, r.frame, s.frameCount)
    IN  IF r.frame = <<>>
        THEN [t EXCEPT !.pos = 0, !.pc = "ret_mean"]
        ELSE IF ~a.ok
        THEN Heap([Msg(t, MSG_ATOMMISMATCH, Shown(r.header, o))
                      EXCEPT !.meanFrame = <<>>, !.pos = 0,
                             !.pc = "ret_mean"],
                  <<Allocated("frame"), Freed("frame"), Freed("mean")>>)
        ELSE Heap([t EXCEPT !.meanFrame = a.mean],
                  <<Allocated("frame"), Freed("frame")>>)

\* mutant: the error is reported but main carries on
CheckMeanStepCarryOn(s) ==
    IF s.meanFrame = <<>>
    THEN [Msg([s EXCEPT !.log = Append(@, "mean_fail")], MSG_NOMEAN, EmptyStr)
             EXCEPT !.pc = "closest_enter"]
    ELSE [s EXCEPT !.pc = "closest_enter", !.log = Append(@, "mean_ok")]

\* mutant: main does not test the mean frame
CheckMeanStepUnchecked(s) ==
    [s EXCEPT !.pc = "closest_enter", !.log = Append(@, "mean_ok")]

CheckMeanStep(s) ==
    IF s.meanFrame = <<>>
    THEN Die([s EXCEPT !.log = Append(@, "mean_fail")], MSG_NOMEAN, EmptyStr)
    ELSE [s EXCEPT !.pc = "closest_enter", !.log = Append(@, "mean_ok")]

\* ---- pass 3: FindClosestToMean ----
\* mutant: ReadFrame(NULL, NULL) is not called
ClosestEnterStepNoReset(s) ==
    [s EXCEPT !.closestFrame = <<>>, !.firstFrame = TRUE,
              !.lowestRMSD = Unset, !.locHeader = Uninit, !.yielded = <<>>,
              !.closestIdx = 0, !.pc = "closest_loop",
              !.log = Append(@, "closest")]

ClosestEnterStep(s) ==
    [s EXCEPT !.closestFrame = <<>>, !.firstFrame = TRUE,
              !.lowestRMSD = Unset, !.locHeader = Uninit, !.yielded = <<>>,
              !.closestIdx = 0, !.firstEntry = TRUE, !.pc = "closest_loop",
              !.log = Append(@, "closest")]

\* mutant: a better frame is copied but lowestRMSD is left as it was
ClosestLoopStepNoUpdate(s, o) ==
    LET r == ReadOf(s, o)
        t == AfterRead(s, r)
        rmsd == RMSFrame(s.meanFrame, r.frame)
        c == [t EXCEPT !.rmsCall = <<s.meanFrame, r.frame>>]
    IN  IF r.frame = <<>>
        THEN [t EXCEPT !.pos = 0, !.pc = "ret_closest"]
        ELSE IF IsNeg(rmsd)
        THEN Heap([Msg(c, MSG_ATOMMISMATCH, Shown(s.header, o))
                      EXCEPT !.closestFrame = <<>>, !.closestIdx = 0,
                             !.pc = "ret_closest"],
                  <<Allocated("frame")>>)
        ELSE IF s.firstFrame
        THEN Heap([c EXCEPT !.closestFrame = CopyFrame(r.frame),
                            !.closestIdx = Len(c.yielded),
                            !.lowestRMSD = rmsd, !.firstFrame = FALSE],
                  <<Allocated("frame"), Allocated("closest"),
                    Freed("frame")>>)
        ELSE IF Less(rmsd, s.lowestRMSD)
        THEN Heap([c EXCEPT !.closestFrame = CopyFrame(r.frame),
                            !.closestIdx = Len(c.yielded)],
                  <<Allocated("frame"), Freed("closest"),
                    Allocated("closest"), Freed("frame")>>)
        ELSE Heap(c, <<Allocated("frame"), Freed("frame")>>)

\* mutant: the new best is copied before the previous best is freed
ClosestLoopStepCopyFirst(s, o) ==
    LET r == ReadOf(s, o)
        t == AfterRead(s, r)
        rmsd == RMSFrame(s.meanFrame, r.frame)
        c == [t EXCEPT !.rmsCall = <<s.meanFrame, r.frame>>]
    IN  IF r.frame = <<>>
        THEN [t EXCEPT !.pos = 0, !.pc = "ret_closest"]
        ELSE IF IsNeg(rmsd)
        THEN Heap([Msg(c, MSG_ATOMMISMATCH, Shown(s.header, o))
                      EXCEPT !.closestFrame = <<>>, !.closestIdx = 0,
                             !.pc = "ret_closest"],
                  <<Allocated("frame")>>)
        ELSE IF s.firstFrame
        THEN Heap([c EXCEPT !.closestFrame = CopyFrame(r.frame),
                            !.closestIdx = Len(c.yielded),
                            !.lowestRMSD = rmsd, !.firstFrame = FALSE],
                  <<Allocated("frame"), Allocated("closest"),
                    Freed("frame")>>)
        ELSE IF Less(rmsd, s.lowestRMSD)
        THEN Heap([c EXCEPT !.closestFrame = CopyFrame(r.frame),
                            !.closestIdx = Len(c.yielded),
                            !.lowestRMSD = rmsd],
                  <<Allocated("frame"), Allocated("closest"),
                    Freed("closest"), Freed("frame")>>)
        ELSE Heap(c, <<Allocated("frame"), Freed("frame")>>)

ClosestLoopStep(s, o) ==
    LET r == ReadOf(s, o)
        t == AfterRead(s, r)
        rmsd == RMSFrame(s.meanFrame, r.frame)
        c == [t EXCEPT !.rmsCall = <<s.meanFrame, r.frame>>]
    IN  IF r.frame = <<>>
        THEN [t EXCEPT !.pos = 0, !.pc = "ret_closest"]
        ELSE IF IsNeg(rmsd)
        THEN Heap([Msg(c, MSG_ATOMMISMATCH, Shown(s.header, o))
                      EXCEPT !.closestFrame = <<>>, !.closestIdx = 0,
                             !.pc = "ret_closest"],
                  <<Allocated("frame")>>)
        ELSE IF s.firstFrame
        THEN Heap([c EXCEPT !.closestFrame = CopyFrame(r.frame),
                            !.closestIdx = Len(c.yielded),
                            !.lowestRMSD = rmsd, !.firstFrame = FALSE],
                  <<Allocated("frame"), Allocated("closest"),
                    Freed("frame")>>)
        ELSE IF Less(rmsd, s.lowestRMSD)
        THEN Heap([c EXCEPT !.closestFrame = CopyFrame(r.frame),
                            !.closestIdx = Len(c.yielded),
                            !.lowestRMSD = rmsd],
                  <<Allocated("frame"), Freed("closest"),
                    Allocated("closest"), Freed("frame")>>)
        ELSE Heap(c, <<Allocated("frame"), Freed("frame")>>)

CheckClosestStep(s, o) ==
    IF s.closestFrame = <<>>
    THEN Die([s EXCEPT !.log = Append(@, "closest_fail")], MSG_NOCLOSEST,
             Shown(s.header, o))
    ELSE [s EXCEPT !.pc = "rmsd_enter", !.log = Append(@, "closest_ok")]

\* ---- pass 4: CalculateMeanRMSD ----
RmsdEnterStep(s) ==
    [s EXCEPT !.meanRMSD = 0, !.locHeader = Uninit, !.yielded = <<>>,
              !.firstEntry = TRUE, !.pc = "rmsd_loop",
              !.log = Append(@, "rmsd")]

RmsdLoopStep(s, o) ==
    LET r == ReadOf(s, o)
        t == AfterRead(s, r)
        rmsd == RMSFrame(s.closestFrame, r.frame)
        c == [t EXCEPT !.rmsCall = <<s.closestFrame, r.frame>>]
    IN  IF r.frame = <<>>
        THEN [t EXCEPT !.meanRMSD = Over(@, s.frameCount), !.pos = 0,
                       !.pc = "ret_rmsd"]
        ELSE IF IsNeg(rmsd)
        THEN Heap([Msg(c, MSG_ATOMMISMATCH, Shown(r.header, o))
                      EXCEPT !.meanRMSD = 0 - Scale, !.pc = "ret_rmsd"],
                  <<Allocated("frame")>>)
        ELSE Heap([c EXCEPT !.meanRMSD = Plus(@, rmsd)],
                  <<Allocated("frame"), Freed("frame")>>)

\* mutant: <= 0.0 in place of < 0.0
CheckRmsdStepNonPositive(s) ==
    IF s.meanRMSD # NaN /\ s.meanRMSD <= 0
    THEN Die([s EXCEPT !.log = Append(@, "rmsd_fail")], MSG_NORMSD, EmptyStr)
    ELSE [s EXCEPT !.pc = "emit", !.log = Append(@, "rmsd_ok")]

CheckRmsdStep(s) ==
    IF IsNeg(s.meanRMSD)
    THEN Die([s EXCEPT !.log = Append(@, "rmsd_fail")], MSG_NORMSD, EmptyStr)
    ELSE [s EXCEPT !.pc = "emit", !.log = Append(@, "rmsd_ok")]

\* fclose(in); printf("%.4f\n", meanRMSD); return(0);
EmitScoreStep(s) ==
    [s EXCEPT !.out = Append(@, s.meanRMSD), !.exitStatus = 0, !.pc = "exit"]

\* one step of the program from state s
Step(s, o) ==
    CASE s.pc = "count" -> CountStep(s)
      [] s.pc = "ret_count" -> CheckCountStep(s)
      [] s.pc = "mean_enter" -> MeanEnterStep(s)
      [] s.pc = "mean_seed" -> MeanSeedStep(s, o)
      [] s.pc = "mean_loop" -> MeanLoopStep(s, o)
      [] s.pc = "ret_mean" -> CheckMeanStep(s)
      [] s.pc = "closest_enter" -> ClosestEnterStep(s)
      [] s.pc = "closest_loop" -> ClosestLoopStep(s, o)
      [] s.pc = "ret_closest" -> CheckClosestStep(s, o)
      [] s.pc = "rmsd_enter" -> RmsdEnterStep(s)
      [] s.pc = "rmsd_loop" -> RmsdLoopStep(s, o)
      [] s.pc = "ret_rmsd" -> CheckRmsdStep(s)
      [] s.pc = "emit" -> EmitScoreStep(s)
      [] OTHER -> s

\* the whole run of main on file f
RECURSIVE RunFrom(_)
RunFrom(s) == IF s.pc = "exit" THEN s ELSE RunFrom(Step(s, Oracle0))

Run(f) == RunFrom(Start(f))

\* ---- the program as a state machine ----
Init ==
    /\ IsInput(file)
    /\ Apply0(Start(file))
    /\ argA = <<>>
    /\ argB = <<>>
    /\ res = <<>>

DoCountFrames == pc = "count" /\ Apply(CountStep(St))

MainCheckCount == pc = "ret_count" /\ Apply(CheckCountStep(St))

MeanEnter == pc = "mean_enter" /\ Apply(MeanEnterStep(St))

MeanSeed == pc = "mean_seed" /\ \E o \in Oracles : Apply(MeanSeedStep(St, o))

MeanLoop == pc = "mean_loop" /\ \E o \in Oracles : Apply(MeanLoopStep(St, o))

MainCheckMean == pc = "ret_mean" /\ Apply(CheckMeanStep(St))

ClosestEnter == pc = "closest_enter" /\ Apply(ClosestEnterStep(St))

ClosestLoop ==
    pc = "closest_loop" /\ \E o \in Oracles : Apply(ClosestLoopStep(St, o))

MainCheckClosest ==
    pc = "ret_closest" /\ \E o \in Oracles : Apply(CheckClosestStep(St, o))

RmsdEnter == pc = "rmsd_enter" /\ Apply(RmsdEnterStep(St))

RmsdLoop == pc = "rmsd_loop" /\ \E o \in Oracles : Apply(RmsdLoopStep(St, o))

MainCheckRmsd == pc = "ret_rmsd" /\ Apply(CheckRmsdStep(St))

EmitScore == pc = "emit" /\ Apply(EmitScoreStep(St))

Next ==
    \/ DoCountFrames
    \/ MainCheckCount
    \/ MeanEnter
    \/ MeanSeed
    \/ MeanLoop
    \/ MainCheckMean
    \/ ClosestEnter
    \/ ClosestLoop
    \/ MainCheckClosest
    \/ RmsdEnter
    \/ RmsdLoop
    \/ MainCheckRmsd
    \/ EmitScore

Spec == Init /\ [][Next]_vars

\* ---- RMSFrame called directly on two arbitrary frames ----
ScaledCoordSet == {<<c[1] * Scale, c[2] * Scale, c[3] * Scale>> : c \in CoordSet}

FrameSet == UNION {[1..n -> ScaledCoordSet] : n \in 0..MaxAtoms}

InitRMS ==
    /\ argA \in FrameSet
    /\ argB \in FrameSet
    /\ res = <<>>
    /\ Apply0(Start(<<>>))

CallRMSFrame ==
    /\ res = <<>>
    /\ res' = <<RMSFrame(argA, argB), RMSFrame(argB, argA)>>
    /\ UNCHANGED <<file, pos, buffer, firstEntry, pc, frameCount, meanFrame,
                   closestFrame, header, locHeader, firstFrame, lowestRMSD,
                   meanRMSD, out, err, exitStatus, yielded, reads, closestIdx,
                   log, heap, rmsCall, argA, argB>>

NextRMS == CallRMSFrame

SpecRMS == InitRMS /\ [][NextRMS]_vars

\* ---- the trajectory a file denotes, as the file format defines it ----

NoJunk(f) == NumJunk(f) = 0

\* the coordinate triples under each header line, in file order
RECURSIVE RawFrames(_)
RawFrames(f) ==
    IF f = <<>> THEN <<>>
    ELSE LET front == RawFrames(SubSeq(f, 1, Len(f) - 1))
             l == f[Len(f)]
         IN  IF l.k = "hdr" THEN Append(front, <<>>)
             ELSE IF l.k = "xyz" /\ front # <<>>
             THEN [front EXCEPT ![Len(front)] = Append(@, l.v)]
             ELSE front

AsReals(fr) ==
    [i \in 1..Len(fr) |-> <<fr[i][1] * Scale, fr[i][2] * Scale,
                            fr[i][3] * Scale>>]

\* frame i of the trajectory in file f
FrameOf(f, i) == AsReals(RawFrames(f)[i])

\* every frame has the coordinate count of the first
Uniform(f) ==
    /\ NoJunk(f)
    /\ \A i \in 1..NumHeaders(f) : Len(RawFrames(f)[i]) = Len(RawFrames(f)[1])

HasMismatch(f) ==
    /\ NoJunk(f)
    /\ \E i \in 1..NumHeaders(f) : Len(RawFrames(f)[i]) # Len(RawFrames(f)[1])

Logged(e) == \E i \in DOMAIN log : log[i] = e

MismatchReported == \E i \in DOMAIN err : err[i][1] = MSG_ATOMMISMATCH

\* C1: a trajectory in which some frame has another coordinate count than
\* the first frame (a frame without coordinate lines included) is aborted:
\* the run ends with exit status 1 and no score on stdout.
C1_MismatchAborts ==
    (HasMismatch(file) /\ pc = "exit") => (out = <<>> /\ exitStatus = 1)

\* C2: a file without header lines makes CountFrames return 0 and the run
\* end with "No frames in trajectory" and exit status 1, without any
\* ReadFrame call on the file and without a score.
C2_NoFramesAborts ==
    (NumHeaders(file) = 0 /\ pc # "count")
        => /\ frameCount = 0
           /\ reads = 0
           /\ out = <<>>
           /\ \/ pc = "ret_count" /\ err = <<>>
              \/ /\ pc = "exit"
                 /\ exitStatus = 1
                 /\ err = << <<MSG_NOFRAMES, EmptyStr>> >>
                 /\ log = <<"count", "count_fail">>

C2_Witness == NumHeaders(file) = 0 /\ Len(file) > 0 /\ pc = "exit"

\* the two-frame scenario: f1 = [(0,0,0),(2,0,0)], f2 = [(0,0,0),(0,0,0)]
Scenario ==
    <<Hdr(1), Xyz(<<0, 0, 0>>), Xyz(<<2, 0, 0>>),
      Hdr(2), Xyz(<<0, 0, 0>>), Xyz(<<0, 0, 0>>)>>

\* C3: on the two-frame scenario the mean frame is [(0,0,0),(1,0,0)], the
\* frame selected as closest to the mean is f1, and the score printed is
\* 0.7071.
C3_Scenario ==
    file = Scenario
        => /\ Logged("mean_ok")
                => meanFrame = <<<<0, 0, 0>>, <<Scale, 0, 0>>>>
           /\ Logged("closest_ok")
                => closestFrame = FrameOf(Scenario, 1) /\ closestIdx = 1
           /\ pc = "exit" => out = <<7071>> /\ exitStatus = 0

C3_Witness == file = Scenario /\ pc = "exit" /\ Len(out) = 1

\* N >= 1 frames, all equal, each with at least one coordinate
Identical(f) ==
    /\ NoJunk(f)
    /\ NumHeaders(f) >= 1
    /\ Len(RawFrames(f)[1]) >= 1
    /\ \A i \in 1..NumHeaders(f) : RawFrames(f)[i] = RawFrames(f)[1]

Abs(x) == IF x < 0 THEN 0 - x ELSE x

\* fa and fb differ by less than tol units of 1 / Scale in every coordinate
Near(fa, fb, tol) ==
    /\ Len(fa) = Len(fb)
    /\ \A i \in 1..Len(fa) : \A j \in 1..3 : Abs(fa[i][j] - fb[i][j]) < tol

\* x / n is exact for every coordinate x of fr
DividesExactly(fr, n) ==
    \A i \in 1..Len(fr) : \A j \in 1..3 : fr[i][j] % n = 0

Perms(n) == {p \in [1..n -> 1..n] : \A i, j \in 1..n : p[i] = p[j] => i = j}

RECURSIVE Render(_, _)
Render(fs, i) ==
    IF i > Len(fs) THEN <<>>
    ELSE <<Hdr(i)>> \o [j \in 1..Len(fs[i]) |-> Xyz(fs[i][j])]
                    \o Render(fs, i + 1)

Permuted(f, p) == Render([i \in 1..NumHeaders(f) |-> RawFrames(f)[p[i]]], 1)

\* the frames at minimum RMSD from the mean frame all have the same
\* coordinates (so, in particular, when one frame alone is at the minimum)
TiesAreEqual ==
    \A i, j \in 1..NumHeaders(file) :
        (/\ RMSFrame(meanFrame, FrameOf(file, i)) = lowestRMSD
         /\ RMSFrame(meanFrame, FrameOf(file, j)) = lowestRMSD)
            => FrameOf(file, i) = FrameOf(file, j)

\* C5 as stated: on a uniform trajectory every permutation of the frames
\* gives the same mean frame and the same output, ties included.
C5_PermutationInvariant ==
    (Uniform(file) /\ pc = "exit")
        => \A p \in Perms(NumHeaders(file)) :
              LET r == Run(Permuted(file, p))
              IN  r.meanFrame = meanFrame /\ r.out = out

\* C5 amended: on a uniform trajectory every permutation of the frames gives
\* the same mean frame, and the same output whenever the frames that tie for
\* the minimum RMSD to the mean have equal coordinates.
C5_PermutationInvariantUpToTies ==
    (Uniform(file) /\ pc = "exit")
        => \A p \in Perms(NumHeaders(file)) :
              LET r == Run(Permuted(file, p))
              IN  /\ r.meanFrame = meanFrame
                  /\ (out = <<>> \/ TiesAreEqual) => r.out = out

C5_Witness ==
    /\ Uniform(file)
    /\ pc = "exit"
    /\ NumHeaders(file) >= 3
    /\ Len(out) = 1 /\ out[1] > 0
    /\ TiesAreEqual
    /\ \E p \in Perms(NumHeaders(file)) : Permuted(file, p) # file

\* C6 as stated: every uniform trajectory of N >= 1 frames prints one score,
\* and the score is not negative.
C6_UniformScores ==
    (Uniform(file) /\ NumHeaders(file) >= 1 /\ pc = "exit")
        => Len(out) = 1 /\ out[1] >= 0

\* C6 amended: every uniform trajectory of N >= 1 frames with at least one
\* coordinate per frame prints one score, and no run prints a negative
\* number (the mismatch sentinel -1.0 included).
C6_NonEmptyUniformScores ==
    /\ \A i \in DOMAIN out : out[i] >= 0
    /\ (/\ Uniform(file) /\ NumHeaders(file) >= 1
        /\ Len(RawFrames(file)[1]) >= 1 /\ pc = "exit")
            => Len(out) = 1 /\ out[1] >= 0 /\ exitStatus = 0

C6_Witness ==
    /\ Uniform(file)
    /\ NumHeaders(file) >= 2
    /\ pc = "exit"
    /\ Len(out) = 1 /\ out[1] > 0

\* C7: RMSFrame(A, B) and RMSFrame(B, A) return the same: the RMSD when the
\* lengths agree, the sentinel -1.0 when they differ (and 0.0 / 0 for two
\* empty lists).
C7_RMSFrameSymmetric ==
    res # <<>>
        => /\ res[1] = res[2]
           /\ Len(argA) # Len(argB) => res[1] = 0 - Scale
           /\ Len(argA) = Len(argB) => ~IsNeg(res[1])

C7_Witness ==
    /\ res # <<>>
    /\ Len(argA) = Len(argB)
    /\ argA # argB
    /\ res[1] > 0

FullLog ==
    <<"count", "count_ok", "mean", "mean_ok", "closest", "closest_ok",
      "rmsd", "rmsd_ok">>

FailLog == <<"count_fail", "mean_fail", "closest_fail", "rmsd_fail">>

LastLog == log[Len(log)]

\* C8: the passes run in the order count, mean, closest, RMSD; each starts
\* only after main has accepted the result of the one before (the frame
\* count, a mean frame, a closest frame), and after a failed pass the run
\* is over: no later pass starts and nothing is printed.
C8_PassOrder ==
    /\ \/ \E k \in 0..Len(FullLog) : log = SubSeq(FullLog, 1, k)
       \/ \E j \in 1..4 :
             /\ log = SubSeq(FullLog, 1, 2 * j - 1) \o <<FailLog[j]>>
             /\ pc = "exit" /\ exitStatus = 1 /\ out = <<>>
    /\ pc = "count" => log = <<>> /\ reads = 0
    /\ pc = "ret_count" => LastLog = "count" /\ reads = 0
    /\ pc \in {"mean_seed", "mean_loop", "ret_mean"}
          => /\ LastLog = "mean"
             /\ frameCount = NumHeaders(file) /\ frameCount >= 1
    /\ pc \in {"closest_loop", "ret_closest"}
          => LastLog = "closest" /\ frameCount >= 1 /\ meanFrame # <<>>
    /\ pc \in {"rmsd_loop", "ret_rmsd"}
          => /\ LastLog = "rmsd"
             /\ frameCount >= 1 /\ meanFrame # <<>> /\ closestFrame # <<>>
    /\ pc = "emit" => log = FullLog

C8_Witness == pc = "exit" /\ log = FullLog /\ Len(out) = 1

C8_WitnessFail == pc = "exit" /\ Logged("mean_fail")

\* C9: after every ReadFrame call of a pass that returns a frame, the first
\* one after the reset included, the header parameter holds the header line
\* of that frame (the k-th frame returned has the k-th header line).
C9_HeaderOfFrameRead ==
    (/\ NoJunk(file)
     /\ pc \in {"mean_loop", "closest_loop", "rmsd_loop"}
     /\ Len(yielded) >= 1)
        => locHeader = Hdr(Len(yielded))

\* C10: when FindClosestToMean returns a frame, main's header holds the
\* header line of the frame returned.
C10_HeaderOfClosest ==
    (pc = "ret_closest" /\ closestFrame # <<>>) => header = Hdr(closestIdx)

\* C11: a line that is neither a header nor a coordinate line (before the
\* first header, inside a frame or between frames) adds no entry to any
\* frame: the k-th frame ReadFrame returns has as many entries as there are
\* coordinate lines under the k-th header.
C11_JunkLinesSkipped ==
    \A k \in 1..Len(yielded) : Len(yielded[k]) = Len(RawFrames(file)[k])

\* C12: whenever a pass reports the atom-count mismatch, the message carries
\* the header line of the frame whose entry count differs from that of the
\* reference frame: the frame just read is the k-th of the file, its count
\* differs from the first frame's, the frames before it agree with the first,
\* and the message shows the k-th header line.
C12_MismatchNamesFrame ==
    \A i \in DOMAIN err :
        err[i][1] = MSG_ATOMMISMATCH
            => LET k == Len(yielded) IN
               /\ k >= 2
               /\ Len(yielded[k]) # Len(yielded[1])
               /\ \A j \in 1..(k - 1) : Len(yielded[j]) = Len(yielded[1])
               /\ NoJunk(file) => yielded[k] = FrameOf(file, k)
               /\ err[i][2] = Hdr(k)

C12_Witness ==
    /\ MismatchReported
    /\ pc = "exit"
    /\ Len(yielded) >= 3
    /\ NoJunk(file)

\* C13: when FindClosestToMean returns a frame, it is a copy of one of the
\* frames read in the pass, its RMSD to the mean frame is lowestRMSD, no
\* frame of the pass has a smaller RMSD to the mean frame, and every frame
\* read before it has a strictly larger one (ties keep the earliest).
C13_ClosestIsEarliestMinimum ==
    (pc = "ret_closest" /\ closestFrame # <<>>)
        => /\ closestIdx \in 1..Len(yielded)
           /\ closestFrame = yielded[closestIdx]
           /\ lowestRMSD = RMSFrame(meanFrame, closestFrame)
           /\ \A j \in 1..Len(yielded) :
                 ~Less(RMSFrame(meanFrame, yielded[j]), lowestRMSD)
           /\ \A j \in 1..(closestIdx - 1) :
                 Less(lowestRMSD, RMSFrame(meanFrame, yielded[j]))

C13_Witness ==
    /\ pc = "ret_closest"
    /\ closestIdx >= 2
    /\ \E j \in (closestIdx + 1)..Len(yielded) :
          /\ RMSFrame(meanFrame, yielded[j]) = lowestRMSD
          /\ yielded[j] # closestFrame

\* C14: the first ReadFrame call of each reading pass (the seed read and the
\* first read of the loop of CalculateMeanCoords, the first read of
\* FindClosestToMean and of CalculateMeanRMSD) finds firstEntry TRUE and the
\* file at its beginning, and when a pass returns successfully (a count, a
\* mean frame, a closest frame, a score that is not negative) the file is
\* at its beginning again.
C14_PassesStartAndEndRewound ==
    /\ pc = "mean_seed" => firstEntry /\ pos = 0
    /\ (pc \in {"mean_loop", "closest_loop", "rmsd_loop"} /\ yielded = <<>>)
          => firstEntry /\ pos = 0
    /\ pc = "ret_count" => pos = 0
    /\ (pc = "ret_mean" /\ meanFrame # <<>>) => pos = 0
    /\ (pc = "ret_closest" /\ closestFrame # <<>>) => pos = 0
    /\ (pc = "ret_rmsd" /\ ~IsNeg(meanRMSD)) => pos = 0

C14_Witness ==
    /\ pc = "rmsd_loop"
    /\ yielded = <<>>
    /\ reads >= 7
    /\ firstEntry
    /\ pos = 0

\* C15: at every moment of a run at most one frame read by a loop is on the
\* heap besides at most one mean frame and at most one closest copy, whatever
\* the number of frames; in FindClosestToMean, from the first frame on, one
\* closest copy is held between iterations, and never two at once (the old
\* copy is freed before the new one is made).
C15_BoundedLiveFrames ==
    /\ \A k \in Kinds : heap.live[k] \in 0..1 /\ heap.peak[k] \in 0..1
    /\ (pc = "closest_loop" /\ Len(yielded) >= 1)
          => heap.live["closest"] = 1 /\ heap.live["frame"] = 0
    /\ (pc = "ret_closest" /\ closestFrame # <<>>)
          => heap.live["closest"] = 1 /\ heap.live["frame"] = 0
    /\ pc \in {"rmsd_loop", "ret_rmsd", "emit"}
          => heap.live = [k \in Kinds |-> IF k = "frame" THEN 0 ELSE 1]

C15_Witness ==
    /\ pc = "rmsd_loop"
    /\ Len(yielded) >= 3
    /\ closestIdx >= 2
    /\ heap.peak = [k \in Kinds |-> 1]

\* coordinate j of entry a of frame i of file f; a frame without entry a
\* contributes nothing
CoordOf(f, i, a, j) ==
    IF a <= Len(RawFrames(f)[i]) THEN FrameOf(f, i)[a][j] ELSE 0

\* x[1] / n + ... + x[i] / n for coordinate j of entry a
RECURSIVE SumOfQuotients(_, _, _, _, _)
SumOfQuotients(f, i, a, j, n) ==
    IF i = 0 THEN 0
    ELSE SumOfQuotients(f, i - 1, a, j, n) + (CoordOf(f, i, a, j) \div n)

\* C16: a mean frame returned by CalculateMeanCoords has as many entries as
\* the first frame, and each of its coordinates is the sum, over all the
\* frames CountFrames counted, of that coordinate of the frame divided by
\* the frame count.
C16_MeanOfAllFrames ==
    (NoJunk(file) /\ pc = "ret_mean" /\ meanFrame # <<>>)
        => /\ Len(meanFrame) = Len(RawFrames(file)[1])
           /\ \A a \in 1..Len(meanFrame) : \A j \in 1..3 :
                 meanFrame[a][j]
                    = SumOfQuotients(file, frameCount, a, j, frameCount)

\* the run has printed one score after four accepted passes, without any
\* message
Completed ==
    /\ exitStatus = 0
    /\ Len(out) = 1
    /\ err = <<>>
    /\ log = FullLog

\* the run has ended with exit status 1 on the first check that failed,
\* with the message of that check last on stderr and no score
Aborted ==
    /\ exitStatus = 1
    /\ out = <<>>
    /\ \E j \in 1..4 :
          /\ log = SubSeq(FullLog, 1, 2 * j - 1) \o <<FailLog[j]>>
          /\ err # <<>>
          /\ err[Len(err)][1]
                = <<MSG_NOFRAMES, MSG_NOMEAN, MSG_NOCLOSEST, MSG_NORMSD>>[j]
          /\ \A i \in 1..(Len(err) - 1) : err[i][1] = MSG_ATOMMISMATCH

\* the places of the program, last first
PcOrder ==
    <<"exit", "emit", "ret_rmsd", "rmsd_loop", "rmsd_enter", "ret_closest",
      "closest_loop", "closest_enter", "ret_mean", "mean_loop", "mean_seed",
      "mean_enter", "ret_count", "count">>

\* a bound on the number of steps the run can still take: the places still
\* ahead, each worth a whole pass over the file, and the lines not yet read
StepsLeft ==
    LET rank == CHOOSE i \in 1..Len(PcOrder) : PcOrder[i] = pc
    IN  (rank - 1) * (Len(file) + 1) + (Len(file) - pos)

\* C17: every run ends (each step lowers a natural number and a run that
\* has not ended can take a step), and it ends in one of two ways: the four
\* passes complete and one score is printed, or the run aborts with exit
\* status 1 at the first check that fails and prints no score; a score is
\* never printed once a message has been reported.
C17_TerminatesInOneOutcome ==
    /\ [][StepsLeft' < StepsLeft]_vars
    /\ [](/\ StepsLeft \in Nat
          /\ pc # "exit" => \E o \in Oracles : Step(St, o) # St
          /\ pc = "exit" => (Completed \/ Aborted)
          /\ pc # "exit" => (out = <<>> /\ exitStatus = -1)
          /\ ~(Completed /\ Aborted)
          /\ out # <<>> => err = <<>>)

C17_Witness ==
    /\ pc = "exit"
    /\ Aborted
    /\ Len(err) = 2
    /\ NumHeaders(file) >= 3

\* C18 as stated: on the two-frame scenario FindClosestToMean computes RMSD
\* 0 for f1 and 0.7071 for f2 against the mean frame, and f1 is selected
\* because its RMSD is strictly lower.
C18_ScenarioStrictlyLower ==
    (file = Scenario /\ pc = "ret_closest")
        => /\ RMSFrame(meanFrame, yielded[1]) = 0
           /\ RMSFrame(meanFrame, yielded[2]) = 7071
           /\ Less(RMSFrame(meanFrame, yielded[1]),
                   RMSFrame(meanFrame, yielded[2]))
           /\ closestIdx = 1

\* C18 amended: on the two-frame scenario FindClosestToMean computes RMSD
\* 0.7071 against the mean frame for f1 and for f2 alike, and f1 is
\* selected because it is read first and f2 is not strictly lower.
C18_ScenarioTie ==
    (file = Scenario /\ pc = "ret_closest")
        => /\ yielded = <<FrameOf(Scenario, 1), FrameOf(Scenario, 2)>>
           /\ RMSFrame(meanFrame, yielded[1]) = 7071
           /\ RMSFrame(meanFrame, yielded[2]) = 7071
           /\ lowestRMSD = 7071
           /\ ~Less(RMSFrame(meanFrame, yielded[2]), lowestRMSD)
           /\ closestIdx = 1
           /\ closestFrame = FrameOf(Scenario, 1)

C18_Witness ==
    /\ file = Scenario
    /\ pc = "ret_closest"
    /\ Len(yielded) = 2
    /\ closestIdx = 1

\* C19: when a reading pass has run to the NULL of ReadFrame and returned
\* its result (a mean frame, a closest frame, a score), the number of frames
\* ReadFrame returned in the pass is the frame count of CountFrames, the
\* divisor of the mean and of the score.
C19_YieldedEqualsCounted ==
    /\ frameCount \in {0, NumHeaders(file)}
    /\ (\/ pc = "ret_mean" /\ meanFrame # <<>>
        \/ pc = "ret_closest" /\ closestFrame # <<>>
        \/ pc = "ret_rmsd" /\ ~IsNeg(meanRMSD))
          => Len(yielded) = frameCount

\* C20: once CalculateMeanCoords has returned a mean frame,
\* FindClosestToMean returns a frame and CalculateMeanRMSD returns a value
\* that is not negative: the atom-count mismatch is reported by
\* CalculateMeanCoords only, and main never aborts with "Couldn't find
\* closest frame" or "Unable to calculate mean RMSD".
C20_LaterPassesCannotFail ==
    /\ pc = "ret_closest" => closestFrame # <<>>
    /\ pc = "ret_rmsd" => ~IsNeg(meanRMSD)
    /\ ~Logged("closest_fail") /\ ~Logged("rmsd_fail")
    /\ \A i \in DOMAIN err : err[i][1] \notin {MSG_NOCLOSEST, MSG_NORMSD}
    /\ MismatchReported => ~Logged("mean_ok")
    /\ Logged("mean_ok") => err = <<>>

C20_Witness ==
    /\ pc = "ret_rmsd"
    /\ Logged("closest_ok")
    /\ frameCount >= 3
    /\ closestIdx >= 2
    /\ ~NoJunk(file)

\* C21: in every RMSFrame call of the pipeline both frames have at least
\* one entry, so when the call does not return the mismatch value -1.0 its
\* counter nCoor is at least 1 and rmsd / nCoor is not a division by zero.
C21_RMSFrameNeverDividesByZero ==
    rmsCall # <<>>
        => LET frame1 == rmsCall[1]
               frame2 == rmsCall[2]
               nCoor == Min(Len(frame1), Len(frame2))
           IN  /\ frame1 # <<>>
               /\ frame2 # <<>>
               /\ ~IsNeg(RMSFrame(frame1, frame2))
                     => nCoor >= 1 /\ RMSFrame(frame1, frame2) # NaN

C21_Witness ==
    /\ pc = "rmsd_loop"
    /\ Len(yielded) >= 2
    /\ rmsCall = <<closestFrame, yielded[Len(yielded)]>>
    /\ RMSFrame(rmsCall[1], rmsCall[2]) > 0

TypeOK ==
    /\ pos \in 0..Len(file)
    /\ firstEntry \in BOOLEAN
    /\ frameCount \in 0..MaxFrames
    /\ exitStatus \in {-1, 0, 1}

====
